---------------------------- MODULE Spec2Model ----------------------------
(***************************************************************************)
(* State-machine model of base_local_planner::TrajectoryPlannerROS         *)
(* (src/base_local_planner/src/trajectory_planner_ros.cpp).                *)
(*                                                                         *)
(* Units.  Lengths are in centimetres, angles in centiradians, linear      *)
(* velocities in cm/s, angular velocities in centirad/s, so that every     *)
(* default parameter of the controller is an integer: xy_goal_tolerance    *)
(* 0.10 m = 10, yaw_goal_tolerance 0.05 rad = 5, the stopped velocities    *)
(* 1e-2 = 1, acc_lim_x 2.5 m/s^2 = 250, acc_lim_th 3.2 rad/s^2 = 320, the  *)
(* pruning distance 1 m^2 = 10000 cm^2.                                    *)
(*                                                                         *)
(* Threads.  The control thread runs initialize, setPlan, isGoalReached    *)
(* and computeVelocityCommands one after the other.  The transport thread  *)
(* runs odomCallback.  The only state both touch is base_odom_, so a       *)
(* control cycle is split exactly where it reads base_odom_, and the       *)
(* callback is split into its three stores.                                *)
(***************************************************************************)
EXTENDS Integers, Sequences, FiniteSets, TLC

----------------------------------------------------------------------------
(* Bounds of the model *)

\* longest plan handed to setPlan
MaxPlanLen == 3

----------------------------------------------------------------------------
(* Parameters set by initialize (defaults of the parameter server) *)

rot_stopped_velocity_ == 1
trans_stopped_velocity_ == 1
yaw_goal_tolerance_ == 5
xy_goal_tolerance_ == 10
acc_lim_x_ == 250
acc_lim_y_ == 250
acc_lim_theta_ == 320
max_vel_th_ == 100
min_vel_th_ == -100
min_in_place_vel_th_ == 40

\* prunePlan's fixed bound "distance_sq < 1" (1 m^2 in cm^2)
PruneSqDist == 10000
\* DBL_MAX, the initial sq_dist of transformGlobalPlan
DblMax == 1000000000

\* costmap_ros_->getSizeInCellsX(), getSizeInCellsY(), getResolution():
\* a 4 m x 3 m window of 10 cm cells
SizeInCellsX == 40
SizeInCellsY == 30
Resolution == 10

\* the translation the transform source reports from the plan frame to the
\* global frame; the robot pose in the plan frame is consistent with it
TfShift == 50

Pi == 314
TwoPi == 628

----------------------------------------------------------------------------
(* Values *)

Pose(x, y, th) == [x |-> x, y |-> y, th |-> th]
Twist(x, y, z) == [x |-> x, y |-> y, z |-> z]

ZeroTwist == Twist(0, 0, 0)
\* what the caller's cmd_vel holds before any cycle wrote it
CallerTwist == Twist(999, 999, 999)
NoPose == Pose(0, 0, 0)

\* plan poses, in the plan frame (global frame = plan frame + TfShift)
PlanPoses == { Pose(10 - TfShift, 0, 0), Pose(250 - TfShift, 0, 0) }

\* robot poses the costmap can report, in the global frame
RobotPoses == { Pose(0, 0, 5), Pose(0, 0, 100), Pose(50, 0, 5),
                Pose(100, 0, 5), Pose(150, 0, 5) }

\* odometry messages: standing still, and moving on all three axes
OdomMsgs == { Twist(0, 0, 0), Twist(30, 20, 50) }

\* contents of the costmap: free, only the robot's own footprint marked,
\* or a lethal obstacle around the robot
Costmaps == { "free", "footprint", "lethal" }

TfResults == { "ok", "lookup", "connectivity", "extrapolation" }

\* what the collaborators answer during one computeVelocityCommands: whether
\* getRobotPose succeeds, how the transform lookup ends, what the costmap
\* holds.  Every failure alone, one double failure, every costmap.
CycleInputs ==
  { [pose_ok |-> TRUE, tf_res |-> "ok", map |-> m] : m \in Costmaps }
  \cup { [pose_ok |-> TRUE, tf_res |-> t, map |-> "free"] : t \in TfResults }
  \cup { [pose_ok |-> FALSE, tf_res |-> "ok", map |-> "free"],
         [pose_ok |-> FALSE, tf_res |-> "lookup", map |-> "lethal"] }

\* the same for one isGoalReached
GoalInputs ==
  { [pose_ok |-> TRUE, tf_res |-> t] : t \in TfResults }
  \cup { [pose_ok |-> FALSE, tf_res |-> "ok"] }

\* arguments of initialize: the two collaborator handles and the value the
\* parameter server holds for prune_plan
InitArgs == { [tf |-> "tf1", costmap_ros |-> "cm1", prune |-> TRUE],
              [tf |-> "tf2", costmap_ros |-> "cm2", prune |-> FALSE] }

\* points of a transformed plan handed to prunePlan, in the global frame:
\* 0.1 m, 0.9 m, exactly 1 m and 2.5 m ahead of the origin
PrunePoints == { Pose(10, 0, 0), Pose(90, 0, 0), Pose(100, 0, 0), Pose(250, 0, 0) }

\* odometry samples a cycle can have copied: each axis still, forward or
\* backward, the yaw rate up to 2 rad/s either way
DecideVels ==
  { Twist(x, y, z) : x \in {0, 30, -30}, y \in {0, -20},
                     z \in {0, 50, -50, 200, -200, 400} }

\* robot poses at the origin, 0.05, 1.0, -1.0 and 2.5 rad off the goal yaw
DecidePoses ==
  { Pose(0, 0, 5), Pose(0, 0, 8), Pose(0, 0, 100), Pose(0, 0, -100),
    Pose(0, 0, 250) }

\* retained plans whose window ends at the robot, ends 2.5 m ahead, or is
\* empty
DecidePlans ==
  { << Pose(10 - TfShift, 0, 0), Pose(10 - TfShift, 0, 0) >>,
    << Pose(10 - TfShift, 0, 0), Pose(250 - TfShift, 0, 0) >>,
    << Pose(10 - TfShift, 0, 0) >> }

\* the velocity samples findBestPath can select on a free costmap
DriveSamples == { Twist(50, 0, 0), Twist(10, 0, 40) }

RECURSIVE SeqsUpTo(_, _)
SeqsUpTo(S, n) ==
  IF n = 0 THEN { <<>> }
  ELSE LET shorter == SeqsUpTo(S, n - 1)
       IN shorter \cup { Append(s, e) : s \in { t \in shorter : Len(t) = n - 1 }, e \in S }

Plans == SeqsUpTo(PlanPoses, MaxPlanLen)

----------------------------------------------------------------------------
(* Arithmetic helpers *)

Abs(v) == IF v < 0 THEN -v ELSE v
Min(a, b) == IF a < b THEN a ELSE b
Max(a, b) == IF a > b THEN a ELSE b

\* sign() of trajectory_planner_ros.h: x < 0.0 ? -1.0 : 1.0
sign(x) == IF x < 0 THEN -1 ELSE 1

\* the largest r in lo..hi with r * r <= n, by bisection
RECURSIVE ISqrtIn(_, _, _)
ISqrtIn(n, lo, hi) ==
  IF lo >= hi THEN lo
  ELSE LET mid == (lo + hi + 1) \div 2
       IN IF mid * mid <= n THEN ISqrtIn(n, mid, hi) ELSE ISqrtIn(n, lo, mid - 1)
\* floor of the square root; the search stops at 46340, the largest root
\* whose square fits a 32-bit integer
ISqrt(n) == ISqrtIn(n, 0, Min(n, 46340))

\* angles::normalize_angle_positive
NormalizeAnglePositive(a) == a % TwoPi

\* angles::normalize_angle: into (-pi, pi]
NormalizeAngle(a) ==
  LET p == NormalizeAnglePositive(a) IN IF p > Pi THEN p - TwoPi ELSE p

\* angles::shortest_angular_distance(from, to)
ShortestAngularDistance(from, to) ==
  LET r == NormalizeAnglePositive(NormalizeAnglePositive(to) - NormalizeAnglePositive(from))
  IN NormalizeAngle(IF r > Pi THEN -(TwoPi - r) ELSE r)

SqDist(x1, y1, x2, y2) == (x2 - x1) * (x2 - x1) + (y2 - y1) * (y2 - y1)

----------------------------------------------------------------------------
(* The trajectory planner tc_ and its world model (trajectory_planner.cpp, *)
(* not part of the sources at hand): modelled from the specification.     *)

\* checkTrajectory: the rollout of the sample is legal iff the footprint
\* touches no lethal cell of the snapshot the planner was built on
CheckTrajectory(costmap, vx_samp, vy_samp, vtheta_samp) == costmap = "free"

\* findBestPath: the selected trajectory; cost < 0 when every sample is
\* infeasible, and then the drive command is zero
FindBestPath(costmap, sample) ==
  IF costmap = "free" THEN [cost_ |-> 0, drive_cmds |-> sample]
  ELSE [cost_ |-> -1, drive_cmds |-> ZeroTwist]

\* costmap_ros_->clearRobotFootprint(): frees the cells under the robot
ClearRobotFootprint(map) == IF map = "footprint" THEN "free" ELSE map

----------------------------------------------------------------------------
(* Pure helpers of TrajectoryPlannerROS *)

\* stopped(), over the odometry record it reads
Stopped(odom) ==
  /\ Abs(odom.z) <= rot_stopped_velocity_
  /\ Abs(odom.x) <= trans_stopped_velocity_
  /\ Abs(odom.y) <= trans_stopped_velocity_

\* goalPositionReached: sqrt(dx^2 + dy^2) <= xy_goal_tolerance_, compared
\* on the squares
goalPositionReached(global_pose, goal_x, goal_y) ==
  SqDist(global_pose.x, global_pose.y, goal_x, goal_y)
    <= xy_goal_tolerance_ * xy_goal_tolerance_

goalOrientationReached(global_pose, goal_th) ==
  Abs(ShortestAngularDistance(global_pose.th, goal_th)) <= yaw_goal_tolerance_

\* robot_vel of computeVelocityCommands: the yaw of the quaternion built
\* from angular.z is angular.z normalised into (-pi, pi]
RobotVel(global_vel) ==
  [x |-> global_vel.x, y |-> global_vel.y, yaw |-> NormalizeAngle(global_vel.z)]

\* stopWithAccLimits with the deceleration subtracted without the floor at 0
stopWithAccLimits_NoFloor(costmap, robot_vel) ==
  LET vx == sign(robot_vel.x) * (Abs(robot_vel.x) - acc_lim_x_ \div 10)
      vy == sign(robot_vel.y) * (Abs(robot_vel.y) - acc_lim_y_ \div 10)
      vel_yaw == robot_vel.yaw
      vth == sign(vel_yaw) * (Abs(vel_yaw) - acc_lim_theta_ \div 10)
      valid_cmd == CheckTrajectory(costmap, vx, vy, vth)
  IN IF valid_cmd THEN [ok |-> TRUE, cmd |-> Twist(vx, vy, vth)]
     ELSE [ok |-> FALSE, cmd |-> ZeroTwist]

\* stopWithAccLimits: [ok, cmd]
stopWithAccLimits(costmap, robot_vel) ==
  LET vx == sign(robot_vel.x) * Max(0, Abs(robot_vel.x) - acc_lim_x_ \div 10)
      vy == sign(robot_vel.y) * Max(0, Abs(robot_vel.y) - acc_lim_y_ \div 10)
      vel_yaw == robot_vel.yaw
      vth == sign(vel_yaw) * Max(0, Abs(vel_yaw) - acc_lim_theta_ \div 10)
      valid_cmd == CheckTrajectory(costmap, vx, vy, vth)
  IN IF valid_cmd THEN [ok |-> TRUE, cmd |-> Twist(vx, vy, vth)]
     ELSE [ok |-> FALSE, cmd |-> ZeroTwist]

\* RotateSample without the clamp to the acceleration window
RotateSample_NoAccWindow(yaw, vel_yaw, goal_th) ==
  LET ang_diff == ShortestAngularDistance(yaw, goal_th)
      v0 == IF ang_diff > 0
            THEN Min(max_vel_th_, Max(min_in_place_vel_th_, ang_diff))
            ELSE Max(min_vel_th_, Min(-min_in_place_vel_th_, ang_diff))
      max_speed_to_stop == ISqrt(2 * acc_lim_theta_ * Abs(ang_diff))
  IN sign(v0) * Min(max_speed_to_stop, Abs(v0))

\* RotateSample without the cap by max_speed_to_stop
RotateSample_NoStopCap(yaw, vel_yaw, goal_th) ==
  LET ang_diff == ShortestAngularDistance(yaw, goal_th)
      v0 == IF ang_diff > 0
            THEN Min(max_vel_th_, Max(min_in_place_vel_th_, ang_diff))
            ELSE Max(min_vel_th_, Min(-min_in_place_vel_th_, ang_diff))
      max_acc_vel == Abs(vel_yaw) + acc_lim_theta_ \div 10
      min_acc_vel == Abs(vel_yaw) - acc_lim_theta_ \div 10
  IN sign(v0) * Min(Max(Abs(v0), min_acc_vel), max_acc_vel)

\* RotateSample without the clamp of the sample to the velocity limits
RotateSample_NoVelocityLimit(yaw, vel_yaw, goal_th) ==
  LET ang_diff == ShortestAngularDistance(yaw, goal_th)
      v0 == ang_diff
      max_acc_vel == Abs(vel_yaw) + acc_lim_theta_ \div 10
      min_acc_vel == Abs(vel_yaw) - acc_lim_theta_ \div 10
      v1 == sign(v0) * Min(Max(Abs(v0), min_acc_vel), max_acc_vel)
      max_speed_to_stop == ISqrt(2 * acc_lim_theta_ * Abs(ang_diff))
  IN sign(v1) * Min(max_speed_to_stop, Abs(v1))

\* the angular sample of rotateToGoal, before the trajectory check
RotateSample(yaw, vel_yaw, goal_th) ==
  LET ang_diff == ShortestAngularDistance(yaw, goal_th)
      v0 == IF ang_diff > 0
            THEN Min(max_vel_th_, Max(min_in_place_vel_th_, ang_diff))
            ELSE Max(min_vel_th_, Min(-min_in_place_vel_th_, ang_diff))
      max_acc_vel == Abs(vel_yaw) + acc_lim_theta_ \div 10
      min_acc_vel == Abs(vel_yaw) - acc_lim_theta_ \div 10
      v1 == sign(v0) * Min(Max(Abs(v0), min_acc_vel), max_acc_vel)
      max_speed_to_stop == ISqrt(2 * acc_lim_theta_ * Abs(ang_diff))
  IN sign(v1) * Min(max_speed_to_stop, Abs(v1))

\* rotateToGoal passing its sample on whatever checkTrajectory answers
rotateToGoal_IgnoresCheck(costmap, global_pose, robot_vel, goal_th) ==
  [ok |-> TRUE,
   cmd |-> Twist(0, 0, RotateSample(global_pose.th, robot_vel.yaw, goal_th))]

\* rotateToGoal: [ok, cmd]; linear x and y are zeroed either way
rotateToGoal(costmap, global_pose, robot_vel, goal_th) ==
  LET v_theta_samp == RotateSample(global_pose.th, robot_vel.yaw, goal_th)
      valid_cmd == CheckTrajectory(costmap, 0, 0, v_theta_samp)
  IN IF valid_cmd THEN [ok |-> TRUE, cmd |-> Twist(0, 0, v_theta_samp)]
     ELSE [ok |-> FALSE, cmd |-> Twist(0, 0, 0)]

----------------------------------------------------------------------------
(* transformGlobalPlan and prunePlan *)

\* the transform looked up from the plan frame to the global frame, applied
\* to a pose
TransformPose(p) == Pose(p.x + TfShift, p.y, p.th)

\* tf_->transformPose of the base-frame identity into the plan frame
RobotPoseInPlanFrame(global_pose) ==
  Pose(global_pose.x - TfShift, global_pose.y, global_pose.th)

dist_threshold ==
  Max((SizeInCellsX * Resolution) \div 2, (SizeInCellsY * Resolution) \div 2)

sq_dist_threshold == dist_threshold * dist_threshold

\* first loop: skip to a point within the window; i counts visited points
\* SkipLoop that stops in front of the first point inside the window
RECURSIVE SkipLoop_StopsInFront(_, _, _, _)
SkipLoop_StopsInFront(plan, robot_pose, i, sq_dist) ==
  IF i < Len(plan)
     /\ SqDist(plan[i + 1].x, plan[i + 1].y, robot_pose.x, robot_pose.y)
          > sq_dist_threshold
  THEN SkipLoop_StopsInFront(plan, robot_pose, i + 1, sq_dist)
  ELSE [i |-> i, sq_dist |-> 0]

RECURSIVE SkipLoop(_, _, _, _)
SkipLoop(plan, robot_pose, i, sq_dist) ==
  IF i < Len(plan) /\ sq_dist > sq_dist_threshold
  THEN SkipLoop(plan, robot_pose, i + 1,
                SqDist(plan[i + 1].x, plan[i + 1].y, robot_pose.x, robot_pose.y))
  ELSE [i |-> i, sq_dist |-> sq_dist]

\* second loop: transform and push until a point falls outside the window
\* PushLoop that stops in front of the first point outside the window
RECURSIVE PushLoop_StopsInWindow(_, _, _, _, _)
PushLoop_StopsInWindow(plan, robot_pose, i, sq_dist, out) ==
  IF i < Len(plan)
     /\ SqDist(plan[i + 1].x, plan[i + 1].y, robot_pose.x, robot_pose.y)
          < sq_dist_threshold
  THEN PushLoop_StopsInWindow(plan, robot_pose, i + 1, sq_dist,
                              Append(out, TransformPose(plan[i + 1])))
  ELSE out

RECURSIVE PushLoop(_, _, _, _, _)
PushLoop(plan, robot_pose, i, sq_dist, out) ==
  IF i < Len(plan) /\ sq_dist < sq_dist_threshold
  THEN PushLoop(plan, robot_pose, i + 1,
                SqDist(plan[i + 1].x, plan[i + 1].y, robot_pose.x, robot_pose.y),
                Append(out, TransformPose(plan[i + 1])))
  ELSE out

\* the transformed plan of a non-empty plan when the lookups succeed
transformGlobalPlan(plan, robot_pose) ==
  LET s == SkipLoop(plan, robot_pose, 0, DblMax)
  IN PushLoop(plan, robot_pose, s.i, s.sq_dist, <<>>)

\* prunePlan erasing the retained plan from its back
RECURSIVE prunePlan_ErasesBack(_, _, _)
prunePlan_ErasesBack(global_pose, plan, global_plan) ==
  IF plan = <<>> THEN [plan |-> plan, global_plan |-> global_plan]
  ELSE IF SqDist(plan[1].x, plan[1].y, global_pose.x, global_pose.y) < PruneSqDist
       THEN [plan |-> plan, global_plan |-> global_plan]
       ELSE prunePlan_ErasesBack(global_pose, Tail(plan),
                                 SubSeq(global_plan, 1, Len(global_plan) - 1))

\* prunePlan: erase from the front of both vectors until a point of the
\* transformed plan is nearer than 1 m
RECURSIVE prunePlan(_, _, _)
prunePlan(global_pose, plan, global_plan) ==
  IF plan = <<>> THEN [plan |-> plan, global_plan |-> global_plan]
  ELSE IF SqDist(plan[1].x, plan[1].y, global_pose.x, global_pose.y) < PruneSqDist
       THEN [plan |-> plan, global_plan |-> global_plan]
       ELSE prunePlan(global_pose, Tail(plan), Tail(global_plan))

----------------------------------------------------------------------------
(* State *)

VARIABLES
  initialized_,       \* members of TrajectoryPlannerROS
  tf_,
  costmap_ros_,
  prune_plan_,
  rotating_to_goal_,
  costmap_,           \* the controller's copy of the costmap
  global_plan_,
  base_odom_,         \* the odometry record both threads touch
  odom_lock_,         \* holder of the member mutex: "free" or "cycle"
  robot,              \* the pose costmap_ros_->getRobotPose reports
  pc,                 \* position of the control thread inside a cycle
  global_pose,        \* locals of the running computeVelocityCommands
  transformed_plan,
  global_vel,
  plan0,              \* global_plan_ when the running cycle was entered
  odom_pc,            \* position of the transport thread in odomCallback
  odom_msg,           \* the message odomCallback is storing
  last                \* the call the control thread is in or finished last:
                      \*   its name, return value, exit, output cmd_vel, and
                      \*   global_plan_ and rotating_to_goal_ at its entry

vars == << initialized_, tf_, costmap_ros_, prune_plan_, rotating_to_goal_,
           costmap_, global_plan_, base_odom_, odom_lock_, robot, pc,
           global_pose, transformed_plan, global_vel, plan0, odom_pc,
           odom_msg, last >>

members == << initialized_, tf_, costmap_ros_, prune_plan_, rotating_to_goal_,
              costmap_, global_plan_ >>
odom_vars == << base_odom_, odom_pc, odom_msg >>
cycle_locals == << pc, global_pose, transformed_plan, global_vel, plan0,
                   odom_lock_ >>

\* a finished call; cmd_vel is the caller's output argument, which only
\* computeVelocityCommands writes
Finished(op, ret, branch) ==
  [op |-> op, ret |-> ret, branch |-> branch, cmd_vel |-> CallerTwist,
   plan0 |-> <<>>, rot0 |-> FALSE]

\* The state the default constructor leaves: the pointers are NULL,
\* initialized_ is false, the plan is empty and the odometry message is
\* zero; rotating_to_goal_ and prune_plan_ are not set by the constructor
\* and hold whatever the memory held.
Init ==
  /\ initialized_ = FALSE
  /\ tf_ = "NULL"
  /\ costmap_ros_ = "NULL"
  /\ prune_plan_ \in BOOLEAN
  /\ rotating_to_goal_ \in BOOLEAN
  /\ costmap_ = "free"
  /\ global_plan_ = <<>>
  /\ base_odom_ = ZeroTwist
  /\ odom_lock_ = "free"
  /\ robot \in RobotPoses
  /\ pc = "idle"
  /\ global_pose = NoPose
  /\ transformed_plan = <<>>
  /\ global_vel = ZeroTwist
  /\ plan0 = <<>>
  /\ odom_pc = "idle"
  /\ odom_msg = ZeroTwist
  /\ last = Finished("none", FALSE, "none")

----------------------------------------------------------------------------
(* initialize, setPlan, isGoalReached *)

\* initialize without the initialized_ test
initialize_Again(args, map) ==
  /\ pc = "idle"
  /\ tf_' = args.tf
  /\ costmap_ros_' = args.costmap_ros
  /\ rotating_to_goal_' = FALSE
  /\ costmap_' = map
  /\ prune_plan_' = args.prune
  /\ initialized_' = TRUE
  /\ last' = Finished("initialize", TRUE, "first")
  /\ UNCHANGED << global_plan_, odom_vars, cycle_locals, robot >>

\* initialize(name, tf, costmap_ros); map is what the costmap holds when
\* getCostmapCopy runs
initialize(args, map) ==
  /\ pc = "idle"
  /\ IF ~initialized_
     THEN /\ tf_' = args.tf
          /\ costmap_ros_' = args.costmap_ros
          /\ rotating_to_goal_' = FALSE
          /\ costmap_' = map
          /\ prune_plan_' = args.prune
          /\ initialized_' = TRUE
          /\ last' = Finished("initialize", TRUE, "first")
          /\ UNCHANGED global_plan_
     ELSE /\ last' = Finished("initialize", FALSE, "already")
          /\ UNCHANGED members
  /\ UNCHANGED << odom_vars, cycle_locals, robot >>

\* setPlan without the initialized_ test
setPlan_NoInitTest(orig_global_plan) ==
  /\ pc = "idle"
  /\ global_plan_' = orig_global_plan
  /\ last' = Finished("setPlan", TRUE, "ok")
  /\ UNCHANGED << initialized_, tf_, costmap_ros_, prune_plan_,
                  rotating_to_goal_, costmap_, odom_vars, cycle_locals, robot >>

setPlan(orig_global_plan) ==
  /\ pc = "idle"
  /\ IF ~initialized_
     THEN /\ last' = Finished("setPlan", FALSE, "not_initialized")
          /\ UNCHANGED global_plan_
     ELSE /\ global_plan_' = orig_global_plan
          /\ last' = Finished("setPlan", TRUE, "ok")
  /\ UNCHANGED << initialized_, tf_, costmap_ros_, prune_plan_,
                  rotating_to_goal_, costmap_, odom_vars, cycle_locals, robot >>

\* the value isGoalReached returns on the retained plan `plan`, and the exit
\* it takes; stopped() reads the member base_odom_
GoalReachedOn(plan, pose_ok, tf_res) ==
  IF ~initialized_ THEN [ret |-> FALSE, branch |-> "not_initialized"]
  ELSE IF Len(plan) = 0 THEN [ret |-> FALSE, branch |-> "zero_length"]
  ELSE IF tf_res # "ok" THEN [ret |-> FALSE, branch |-> tf_res]
  ELSE IF ~pose_ok THEN [ret |-> FALSE, branch |-> "no_pose"]
  ELSE LET goal_pose == TransformPose(plan[Len(plan)])
       IN IF /\ goalPositionReached(robot, goal_pose.x, goal_pose.y)
             /\ goalOrientationReached(robot, goal_pose.th)
             /\ Stopped(base_odom_)
          THEN [ret |-> TRUE, branch |-> "reached"]
          ELSE [ret |-> FALSE, branch |-> "not_reached"]

\* isGoalReached reads the member global_plan_
GoalReachedResult(pose_ok, tf_res) == GoalReachedOn(global_plan_, pose_ok, tf_res)

isGoalReached(pose_ok, tf_res) ==
  /\ pc = "idle"
  /\ LET r == GoalReachedResult(pose_ok, tf_res)
     IN last' = Finished("isGoalReached", r.ret, r.branch)
  /\ UNCHANGED << members, odom_vars, cycle_locals, robot >>

----------------------------------------------------------------------------
(* odomCallback.  Its scoped_lock statement declares a local, unlocked lock *)
(* named odom_lock_; the member mutex is not taken, so the three stores     *)
(* run whatever the control thread holds.                                   *)

odomCallbackX(msg) ==
  /\ initialized_
  /\ odom_pc = "idle"
  /\ base_odom_' = [base_odom_ EXCEPT !.x = msg.x]
  /\ odom_msg' = msg
  /\ odom_pc' = "linear_y"
  /\ UNCHANGED << members, cycle_locals, robot, last >>

odomCallbackY ==
  /\ odom_pc = "linear_y"
  /\ base_odom_' = [base_odom_ EXCEPT !.y = odom_msg.y]
  /\ odom_pc' = "angular_z"
  /\ UNCHANGED << odom_msg, members, cycle_locals, robot, last >>

odomCallbackZ ==
  /\ odom_pc = "angular_z"
  /\ base_odom_' = [base_odom_ EXCEPT !.z = odom_msg.z]
  /\ odom_pc' = "idle"
  /\ odom_msg' = ZeroTwist
  /\ UNCHANGED << members, cycle_locals, robot, last >>

----------------------------------------------------------------------------
(* The environment: the robot moves between the control thread's calls *)

Move(p) ==
  /\ pc = "idle"
  /\ p # robot
  /\ robot' = p
  /\ last' = Finished("move", TRUE, "moved")
  /\ UNCHANGED << members, odom_vars, cycle_locals >>

----------------------------------------------------------------------------
(* computeVelocityCommands *)

Returned(ret, branch, cmd, entry_plan, entry_rotating) ==
  [op |-> "computeVelocityCommands", ret |-> ret, branch |-> branch,
   cmd_vel |-> cmd, plan0 |-> entry_plan, rot0 |-> entry_rotating]

\* leaving the cycle: the locals die
LeaveCycle ==
  /\ pc' = "idle"
  /\ global_pose' = NoPose
  /\ transformed_plan' = <<>>
  /\ global_vel' = ZeroTwist
  /\ plan0' = <<>>

\* EarlyExit without the zero-length test of transformGlobalPlan
EarlyExit_NoLengthTest(pose_ok, tf_res) ==
  IF ~initialized_ THEN "not_initialized"
  ELSE IF ~pose_ok THEN "no_pose"
  ELSE IF tf_res # "ok" THEN tf_res
  ELSE "none"

\* EarlyExit ignoring the answer of getRobotPose
EarlyExit_IgnoresPose(pose_ok, tf_res) ==
  IF ~initialized_ THEN "not_initialized"
  ELSE IF Len(global_plan_) = 0 THEN "zero_length"
  ELSE IF tf_res # "ok" THEN tf_res
  ELSE "none"

\* the exit taken before the plan is transformed, "none" if none is
EarlyExit(pose_ok, tf_res) ==
  IF ~initialized_ THEN "not_initialized"
  ELSE IF ~pose_ok THEN "no_pose"
  ELSE IF Len(global_plan_) = 0 THEN "zero_length"
  ELSE IF tf_res # "ok" THEN tf_res
  ELSE "none"

\* pruning whatever prune_plan_ says
PruneIfSet_Always(pose, plan, global_plan) == prunePlan(pose, plan, global_plan)

\* if(prune_plan_) prunePlan(global_pose, transformed_plan, global_plan_)
PruneIfSet(pose, plan, global_plan) ==
  IF prune_plan_ THEN prunePlan(pose, plan, global_plan)
  ELSE [plan |-> plan, global_plan |-> global_plan]

\* Entry up to odom_lock_.lock(): the initialized_ test, getRobotPose,
\* transformGlobalPlan, prunePlan, clearRobotFootprint, getCostmapCopy.
\* pose_ok and tf_res are what the collaborators answer, map what the
\* costmap holds.
computeVelocityCommandsEnter(pose_ok, tf_res, map) ==
  /\ pc = "idle"
  /\ IF EarlyExit(pose_ok, tf_res) # "none"
     THEN /\ last' = Returned(FALSE, EarlyExit(pose_ok, tf_res), CallerTwist,
                              global_plan_, rotating_to_goal_)
          /\ UNCHANGED << members, cycle_locals >>
     ELSE LET tp == transformGlobalPlan(global_plan_, RobotPoseInPlanFrame(robot))
              pr == PruneIfSet(robot, tp, global_plan_)
          IN /\ global_pose' = robot
             /\ transformed_plan' = pr.plan
             /\ global_plan_' = pr.global_plan
             /\ costmap_' = ClearRobotFootprint(map)
             /\ plan0' = global_plan_
             /\ odom_lock_' = "cycle"
             /\ pc' = "linear_x"
             /\ last' = Finished("computeVelocityCommands", FALSE, "running")
             /\ UNCHANGED << initialized_, tf_, costmap_ros_, prune_plan_,
                             rotating_to_goal_, global_vel >>
  /\ UNCHANGED << odom_vars, robot >>

\* global_vel.linear.x = base_odom_.twist.twist.linear.x, under odom_lock_
computeVelocityCommandsReadX ==
  /\ pc = "linear_x"
  /\ global_vel' = [global_vel EXCEPT !.x = base_odom_.x]
  /\ pc' = "linear_y"
  /\ UNCHANGED << members, odom_vars, robot, global_pose, transformed_plan,
                  plan0, odom_lock_, last >>

computeVelocityCommandsReadY ==
  /\ pc = "linear_y"
  /\ global_vel' = [global_vel EXCEPT !.y = base_odom_.y]
  /\ pc' = "angular_z"
  /\ UNCHANGED << members, odom_vars, robot, global_pose, transformed_plan,
                  plan0, odom_lock_, last >>

\* the third copy, then odom_lock_.unlock()
computeVelocityCommandsReadZ ==
  /\ pc = "angular_z"
  /\ global_vel' = [global_vel EXCEPT !.z = base_odom_.z]
  /\ odom_lock_' = "free"
  /\ pc' = "decide"
  /\ UNCHANGED << members, odom_vars, robot, global_pose, transformed_plan,
                  plan0, last >>

\* the command read back from drive_cmds: x and y of its origin, and the
\* yaw of its rotation, which is the angular sample normalised into (-pi, pi]
DriveCmd(drive_cmds) ==
  Twist(drive_cmds.x, drive_cmds.y, NormalizeAngle(drive_cmds.z))

\* DriveBranch returning success whatever the cost of the path
DriveBranch_IgnoresCost(sample) ==
  LET path == FindBestPath(costmap_, sample)
  IN [ret |-> TRUE, branch |-> "drive", cmd |-> DriveCmd(path.drive_cmds),
      rotating |-> rotating_to_goal_]

\* outside the terminal phase: findBestPath, cmd_vel from drive_cmds, and
\* failure when the cost of the path is negative
DriveBranch(sample) ==
  LET path == FindBestPath(costmap_, sample)
  IN [ret |-> path.cost_ >= 0,
      branch |-> IF path.cost_ >= 0 THEN "drive" ELSE "no_trajectory",
      cmd |-> DriveCmd(path.drive_cmds), rotating |-> rotating_to_goal_]

\* StopOrRotate choosing between stopping and rotating on stopped() alone
StopOrRotate_IgnoresRotating(robot_vel, goal_th) ==
  IF ~Stopped(base_odom_)
  THEN LET s == stopWithAccLimits(costmap_, robot_vel)
       IN [ret |-> s.ok,
           branch |-> IF s.ok THEN "stop" ELSE "stop_infeasible",
           cmd |-> s.cmd, rotating |-> rotating_to_goal_]
  ELSE LET r == rotateToGoal(costmap_, global_pose, robot_vel, goal_th)
       IN [ret |-> r.ok,
           branch |-> IF r.ok THEN "rotate" ELSE "rotate_infeasible",
           cmd |-> r.cmd, rotating |-> TRUE]

\* in position and not oriented: stop with the acceleration limits unless
\* stopped() or already rotating, else set rotating_to_goal_ and rotate
StopOrRotate(robot_vel, goal_th) ==
  IF ~rotating_to_goal_ /\ ~Stopped(base_odom_)
  THEN LET s == stopWithAccLimits(costmap_, robot_vel)
       IN [ret |-> s.ok,
           branch |-> IF s.ok THEN "stop" ELSE "stop_infeasible",
           cmd |-> s.cmd, rotating |-> rotating_to_goal_]
  ELSE LET r == rotateToGoal(costmap_, global_pose, robot_vel, goal_th)
       IN [ret |-> r.ok,
           branch |-> IF r.ok THEN "rotate" ELSE "rotate_infeasible",
           cmd |-> r.cmd, rotating |-> TRUE]

\* What the rest of the cycle decides: [ret, branch, cmd, rotating].  The
\* stopped() test reads the member base_odom_ as it is now, not the copy
\* global_vel taken under the lock.
Decide(sample) ==
  LET robot_vel == RobotVel(global_vel)
  IN IF transformed_plan = <<>>
     THEN [ret |-> FALSE, branch |-> "empty_transformed", cmd |-> CallerTwist,
           rotating |-> rotating_to_goal_]
     ELSE
       LET goal_point == transformed_plan[Len(transformed_plan)]
       IN IF goalPositionReached(global_pose, goal_point.x, goal_point.y)
          THEN IF goalOrientationReached(global_pose, goal_point.th)
               THEN [ret |-> TRUE, branch |-> "done", cmd |-> ZeroTwist,
                     rotating |-> FALSE]
               ELSE StopOrRotate(robot_vel, goal_point.th)
          ELSE DriveBranch(sample)

\* from the empty-plan test to the return
computeVelocityCommandsDecide(sample) ==
  /\ pc = "decide"
  /\ LET d == Decide(sample)
     IN /\ rotating_to_goal_' = d.rotating
        /\ last' = Returned(d.ret, d.branch, d.cmd, plan0, rotating_to_goal_)
  /\ LeaveCycle
  /\ UNCHANGED << initialized_, tf_, costmap_ros_, prune_plan_, costmap_,
                  global_plan_, odom_vars, odom_lock_, robot >>

----------------------------------------------------------------------------
(* Specification *)

Next ==
  \/ \E args \in InitArgs, map \in Costmaps : initialize(args, map)
  \/ \E plan \in Plans : setPlan(plan)
  \/ \E in \in GoalInputs : isGoalReached(in.pose_ok, in.tf_res)
  \/ \E msg \in OdomMsgs : odomCallbackX(msg)
  \/ odomCallbackY
  \/ odomCallbackZ
  \/ \E p \in RobotPoses : Move(p)
  \/ \E in \in CycleInputs :
       computeVelocityCommandsEnter(in.pose_ok, in.tf_res, in.map)
  \/ computeVelocityCommandsReadX
  \/ computeVelocityCommandsReadY
  \/ computeVelocityCommandsReadZ
  \/ \E sample \in DriveSamples : computeVelocityCommandsDecide(sample)

Spec == Init /\ [][Next]_vars

----------------------------------------------------------------------------
(* prunePlan on its own: the call at the prune_plan_ test of                *)
(* computeVelocityCommands, on any transformed plan no longer than the      *)
(* retained one (the ROS_ASSERT of prunePlan) and any robot pose            *)

PruneInit ==
  /\ initialized_ = TRUE
  /\ tf_ = "tf1"
  /\ costmap_ros_ = "cm1"
  /\ prune_plan_ = TRUE
  /\ rotating_to_goal_ = FALSE
  /\ costmap_ = "free"
  /\ base_odom_ = ZeroTwist
  /\ odom_lock_ = "free"
  /\ robot \in RobotPoses
  /\ pc = "prune"
  /\ global_pose = robot
  /\ transformed_plan \in SeqsUpTo(PrunePoints, MaxPlanLen)
  /\ global_plan_ \in { g \in Plans : Len(g) >= Len(transformed_plan) }
  /\ global_vel = ZeroTwist
  /\ plan0 = global_plan_
  /\ odom_pc = "idle"
  /\ odom_msg = ZeroTwist
  /\ last = Finished("computeVelocityCommands", FALSE, "running")

\* prunePlan(global_pose, transformed_plan, global_plan_)
prunePlanCall ==
  /\ pc = "prune"
  /\ LET pr == prunePlan(global_pose, transformed_plan, global_plan_)
     IN /\ transformed_plan' = pr.plan
        /\ global_plan_' = pr.global_plan
  /\ pc' = "pruned"
  /\ UNCHANGED << initialized_, tf_, costmap_ros_, prune_plan_,
                  rotating_to_goal_, costmap_, odom_vars, odom_lock_, robot,
                  global_pose, global_vel, plan0, last >>

PruneNext == prunePlanCall

SpecPrune == PruneInit /\ [][PruneNext]_vars

----------------------------------------------------------------------------
(* The decision of a cycle on its own: a cycle that has transformed its     *)
(* plan and copied its odometry sample, over any sample, odometry record,   *)
(* robot yaw, costmap and rotating_to_goal_                                 *)

DecideInit ==
  /\ initialized_ = TRUE
  /\ tf_ = "tf1"
  /\ costmap_ros_ = "cm1"
  /\ prune_plan_ = FALSE
  /\ rotating_to_goal_ \in BOOLEAN
  /\ costmap_ \in { "free", "lethal" }
  /\ global_plan_ \in DecidePlans
  /\ base_odom_ \in OdomMsgs
  /\ odom_lock_ = "free"
  /\ robot \in DecidePoses
  /\ pc = "decide"
  /\ global_pose = robot
  /\ transformed_plan = transformGlobalPlan(global_plan_, RobotPoseInPlanFrame(robot))
  /\ global_vel \in DecideVels
  /\ plan0 = global_plan_
  /\ odom_pc = "idle"
  /\ odom_msg = ZeroTwist
  /\ last = Finished("computeVelocityCommands", FALSE, "running")

DecideNext == \E sample \in DriveSamples : computeVelocityCommandsDecide(sample)

SpecDecide == DecideInit /\ [][DecideNext]_vars

----------------------------------------------------------------------------
(* The stop phase in closed loop: the robot stands within the xy tolerance  *)
(* of the goal, not oriented and moving, the costmap is free, and every     *)
(* odometry message carries the command the last cycle emitted.  The        *)
(* control loop calls the cycle again and again; the transport thread       *)
(* delivers each message, whose second and third write may still fall into  *)
(* the next cycle.                                                          *)

\* velocities the odometry reports when the stop phase begins
StopVels ==
  { Twist(x, y, z) : x \in {30, -60}, y \in {0, -20}, z \in {0, 50, -200, 400} }

\* robot poses within the xy tolerance of the goal and not oriented
StopPoses == { Pose(0, 0, 100), Pose(0, 0, -100) }

StopInit ==
  /\ initialized_ = TRUE
  /\ tf_ = "tf1"
  /\ costmap_ros_ = "cm1"
  /\ prune_plan_ = FALSE
  /\ rotating_to_goal_ = FALSE
  /\ costmap_ = "free"
  /\ global_plan_ = << Pose(10 - TfShift, 0, 0), Pose(10 - TfShift, 0, 0) >>
  /\ base_odom_ \in StopVels
  /\ odom_lock_ = "free"
  /\ robot \in StopPoses
  /\ pc = "idle"
  /\ global_pose = NoPose
  /\ transformed_plan = <<>>
  /\ global_vel = ZeroTwist
  /\ plan0 = <<>>
  /\ odom_pc = "idle"
  /\ odom_msg = ZeroTwist
  /\ last = Finished("none", FALSE, "none")

\* the command of the last cycle has reached the odometry, or its message
\* is being written
CommandInOdometry ==
  \/ odom_pc # "idle" /\ odom_msg = last.cmd_vel
  \/ odom_pc = "idle" /\ base_odom_ = last.cmd_vel

\* a cycle has emitted a command the odometry has not taken up yet
CommandPending ==
  /\ pc = "idle" /\ last.op = "computeVelocityCommands" /\ last.ret
  /\ ~CommandInOdometry

\* the odometry message that follows a command
odomCallbackOfCommand == CommandPending /\ odomCallbackX(last.cmd_vel)

\* the next call of the control loop
computeVelocityCommandsAgain ==
  ~CommandPending /\ computeVelocityCommandsEnter(TRUE, "ok", "free")

StopCycle ==
  \/ computeVelocityCommandsAgain
  \/ computeVelocityCommandsReadX
  \/ computeVelocityCommandsReadY
  \/ computeVelocityCommandsReadZ
  \/ \E sample \in DriveSamples : computeVelocityCommandsDecide(sample)

StopOdom ==
  \/ odomCallbackOfCommand
  \/ odomCallbackY
  \/ odomCallbackZ

StopNext == StopCycle \/ StopOdom

\* the control loop keeps calling and the transport keeps delivering
SpecStop ==
  StopInit /\ [][StopNext]_vars /\ WF_vars(StopCycle) /\ WF_vars(StopOdom)

----------------------------------------------------------------------------
(* Steps, as seen from a pair of states *)

CVC == "computeVelocityCommands"

\* A call of the control thread, seen from a pair of states: the call named
\* in last' is entered from the idle position, and the step is not one of
\* the transport thread.
CallStep(op) == pc = "idle" /\ last'.op = op /\ UNCHANGED odom_vars

\* the control thread enters computeVelocityCommands
EnterStep == CallStep(CVC)

\* a cycle that got past the plan transform returns
ReturnStep == pc = "decide" /\ pc' = "idle"

SetPlanStep == CallStep("setPlan")

GoalReachedStep == CallStep("isGoalReached")

InitializeStep == CallStep("initialize")

\* s is a suffix of t
IsSuffix(s, t) ==
  /\ Len(s) <= Len(t)
  /\ \A i \in 1..Len(s) : s[i] = t[Len(t) - Len(s) + i]

\* the goal of the retained plan, in the global frame
PlanGoal == TransformPose(global_plan_[Len(global_plan_)])

\* the robot is within the xy tolerance of the retained plan's goal, and
\* within its yaw tolerance
RobotInPosition ==
  /\ global_plan_ # <<>>
  /\ SqDist(robot.x, robot.y, PlanGoal.x, PlanGoal.y)
       <= xy_goal_tolerance_ * xy_goal_tolerance_
RobotOriented ==
  /\ global_plan_ # <<>>
  /\ Abs(ShortestAngularDistance(robot.th, PlanGoal.th))
       <= yaw_goal_tolerance_

\* the goal a running cycle steers to: the last transformed point
CycleGoal == transformed_plan[Len(transformed_plan)]

\* the running cycle is about to decide in the terminal phase: the robot is
\* within the xy tolerance of the cycle's goal
InTerminalPhase ==
  /\ pc = "decide"
  /\ transformed_plan # <<>>
  /\ goalPositionReached(global_pose, CycleGoal.x, CycleGoal.y)

\* ... and not within the yaw tolerance
TerminalNotOriented ==
  /\ InTerminalPhase
  /\ ~goalOrientationReached(global_pose, CycleGoal.th)

\* ... and the cycle takes the rotate branch, whose sample checkTrajectory
\* refuses
RotateInfeasible ==
  /\ TerminalNotOriented
  /\ rotating_to_goal_ \/ Stopped(base_odom_)
  /\ ~CheckTrajectory(costmap_, 0, 0,
                      RotateSample(global_pose.th, RobotVel(global_vel).yaw,
                                   CycleGoal.th))

\* the global-frame point p lies within the window around the pose
InWindow(p, pose) == SqDist(p.x, p.y, pose.x, pose.y) <= sq_dist_threshold

\* the indices of the first contiguous run of in-window points of a retained
\* plan, seen from the pose
FirstWindowRun(plan, pose) ==
  { i \in 1..Len(plan) :
      \E f \in 1..i :
        /\ \A j \in 1..(f - 1) : ~InWindow(TransformPose(plan[j]), pose)
        /\ \A j \in f..i : InWindow(TransformPose(plan[j]), pose) }

----------------------------------------------------------------------------
(* Claims *)

\* C1 (as stated): after setPlan or a cycle, rotating_to_goal_ is true only
\* if the robot is within xy_goal_tolerance of the goal of the retained plan
\* and not within yaw_goal_tolerance of the goal yaw.
C1_RotatingOnlyInPosition ==
  ( /\ initialized_
    /\ pc = "idle"
    /\ last.op \in {"setPlan", CVC}
    /\ global_plan_ # <<>>
    /\ rotating_to_goal_ )
  => (RobotInPosition /\ ~RobotOriented)

\* C2 (as stated): a cycle that returns failure leaves the retained plan and
\* rotating_to_goal_ as they were when the cycle was entered.
C2_FailureKeepsPlanAndFlag ==
  (pc = "idle" /\ last.op = CVC /\ ~last.ret)
  => (global_plan_ = last.plan0 /\ rotating_to_goal_ = last.rot0)

\* C2 (amended): a cycle that returns failure leaves the retained plan a
\* suffix of the plan it was entered with, equal to it when the failure
\* precedes pruning or prune_plan_ is false, and leaves rotating_to_goal_
\* unchanged unless the failure is an infeasible rotate, which leaves it true.
C2_FailureKeepsSuffixAndFlag ==
  (pc = "idle" /\ last.op = CVC /\ ~last.ret)
  => /\ IsSuffix(global_plan_, last.plan0)
     /\ ( \/ ~prune_plan_
          \/ last.branch \in {"not_initialized", "no_pose", "zero_length",
                              "lookup", "connectivity", "extrapolation"} )
        => global_plan_ = last.plan0
     /\ IF last.branch = "rotate_infeasible"
        THEN rotating_to_goal_
        ELSE rotating_to_goal_ = last.rot0

\* a failed cycle that pruned the plan on its way and found no trajectory
C2_Witness ==
  /\ pc = "idle"
  /\ last.op = CVC
  /\ ~last.ret
  /\ last.branch = "no_trajectory"
  /\ global_plan_ # last.plan0

\* C3 (as stated): isGoalReached returns true iff the most recent successful
\* cycle ended in DONE; checked on the calls made right after a successful
\* cycle returned, with the robot pose and the goal transform available.
C3_GoalReachedIffLastCycleDone ==
  [][ ( /\ GoalReachedStep
        /\ last.op = CVC
        /\ last.ret
        /\ last'.branch \in {"reached", "not_reached"} )
        => (last'.ret <=> last.branch = "done")
    ]_vars

\* C4 (as stated): the velocity triple a cycle copies from base_odom_ is the
\* triple of one odometry message (or the zero of the constructor).
C4_SampleIsOneMessage ==
  pc = "decide" => global_vel \in OdomMsgs

\* C5 (as stated): the stopped() guard of the terminal phase decides on the
\* odometry sample the cycle copied: the cycle stops only when that sample
\* is moving, and starts rotating only when it is stopped.
C5_DecidesOnTheSample ==
  [][ ReturnStep =>
        /\ last'.branch \in {"stop", "stop_infeasible"} => ~Stopped(global_vel)
        /\ (last'.branch \in {"rotate", "rotate_infeasible"} /\ ~rotating_to_goal_)
             => Stopped(global_vel)
    ]_vars

\* C6: a cycle entered on an initialized controller with an empty retained
\* plan returns failure at once, writes no command and leaves the plan,
\* rotating_to_goal_ and the costmap copy alone; isGoalReached on an empty
\* plan returns false.
C6_EmptyPlanNoCommand ==
  [][ /\ (initialized_ /\ global_plan_ = <<>> /\ EnterStep)
        => /\ pc' = "idle"
           /\ ~last'.ret
           /\ last'.cmd_vel = CallerTwist
           /\ UNCHANGED << global_plan_, rotating_to_goal_, costmap_ >>
      /\ (initialized_ /\ global_plan_ = <<>> /\ GoalReachedStep) => ~last'.ret
    ]_vars

\* a cycle on an empty plan has returned, pose and transform available
C6_Witness ==
  /\ initialized_
  /\ pc = "idle"
  /\ global_plan_ = <<>>
  /\ last.op = CVC
  /\ last.branch = "zero_length"

\* C7: when getRobotPose fails or the transform lookup throws (lookup,
\* connectivity or extrapolation), the cycle returns failure before pruning,
\* clearing the footprint and refreshing the costmap copy: the plan,
\* rotating_to_goal_ and the copy are unchanged and cmd_vel is not written.
C7_NoPoseOrTransformNoEffect ==
  [][ (EnterStep /\ initialized_) =>
        \A in \in CycleInputs :
          ( /\ ~in.pose_ok \/ in.tf_res # "ok"
            /\ computeVelocityCommandsEnter(in.pose_ok, in.tf_res, in.map) )
          => /\ pc' = "idle"
             /\ ~last'.ret
             /\ last'.cmd_vel = CallerTwist
             /\ UNCHANGED << global_plan_, rotating_to_goal_, costmap_ >>
    ]_vars

\* a cycle failed on the pose with a plan that pruning would have cut
C7_Witness ==
  /\ pc = "idle"
  /\ last.op = CVC
  /\ last.branch = "no_pose"
  /\ prune_plan_
  /\ global_plan_ # <<>>
  /\ prunePlan(robot,
               transformGlobalPlan(global_plan_, RobotPoseInPlanFrame(robot)),
               global_plan_).global_plan # global_plan_

\* C8: before initialize, setPlan, computeVelocityCommands and isGoalReached
\* return failure and change nothing; setPlan succeeds iff the controller is
\* initialized, and then the retained plan is its argument.
C8_NotInitializedNoEffect ==
  [][ /\ (~initialized_ /\ (SetPlanStep \/ EnterStep \/ GoalReachedStep))
        => /\ ~last'.ret
           /\ last'.cmd_vel = CallerTwist
           /\ UNCHANGED << members, odom_vars, cycle_locals, robot >>
      /\ SetPlanStep =>
           \A plan \in Plans :
             setPlan(plan) => /\ last'.ret = initialized_
                              /\ initialized_ => global_plan_' = plan
    ]_vars

\* setPlan was called with a non-empty plan before initialize
C8_Witness ==
  /\ ~initialized_
  /\ last.op = "setPlan"
  /\ ~last.ret
  /\ global_plan_ = <<>>

\* C9: once initialized, initialize changes no member, whatever its
\* arguments and whatever the state.
C9_InitializeOneShot ==
  [][ (initialized_ /\ InitializeStep)
        => UNCHANGED << members, odom_vars, cycle_locals, robot >>
    ]_vars

\* a second initialize returned while rotating towards the goal of a plan
C9_Witness ==
  /\ last.op = "initialize"
  /\ last.branch = "already"
  /\ rotating_to_goal_
  /\ global_plan_ # <<>>

\* C10: with prune_plan_ false, nothing but setPlan changes the retained
\* plan: after setPlan(P) and any number of cycles it is still P.
C10_NoPruneKeepsPlan ==
  [][ (initialized_ /\ ~prune_plan_ /\ ~SetPlanStep)
        => global_plan_' = global_plan_
    ]_vars

\* a successful cycle returned, with prune_plan_ false, on a plan that
\* pruning would have cut
C10_Witness ==
  /\ pc = "idle"
  /\ ~prune_plan_
  /\ last.op = CVC
  /\ last.ret
  /\ global_plan_ = last.plan0
  /\ prunePlan(robot,
               transformGlobalPlan(global_plan_, RobotPoseInPlanFrame(robot)),
               global_plan_).global_plan # global_plan_

\* C11: a cycle entered when isGoalReached would return true leaves it
\* returning true for the same robot pose, odometry and transform: pruning
\* never erases the last point of the retained plan.
C11_GoalReachedSurvivesCycle ==
  ( /\ pc = "idle"
    /\ last.op = CVC
    /\ GoalReachedOn(last.plan0, TRUE, "ok").ret )
  => GoalReachedResult(TRUE, "ok").ret

\* a cycle returned that pruned the retained plan of a reached goal
C11_Witness ==
  /\ pc = "idle"
  /\ last.op = CVC
  /\ GoalReachedOn(last.plan0, TRUE, "ok").ret
  /\ global_plan_ # last.plan0

\* C12 (as stated): after a successful cycle with prune_plan_ true, the first
\* point of the retained plan lies within 1 m of the robot.
C12_FirstRetainedPointNear ==
  ( /\ pc = "idle"
    /\ last.op = CVC
    /\ last.ret
    /\ prune_plan_
    /\ global_plan_ # <<>> )
  => LET first == TransformPose(global_plan_[1])
     IN SqDist(first.x, first.y, robot.x, robot.y) <= PruneSqDist

C14_TransformedPlanIsTheWindow ==
  pc = "decide" =>
    /\ \A i \in 1..Len(transformed_plan) :
         InWindow(transformed_plan[i], global_pose)
    /\ ~prune_plan_ =>
         \A i \in FirstWindowRun(plan0, global_pose) :
           \E k \in 1..Len(transformed_plan) :
             transformed_plan[k] = TransformPose(plan0[i])

\* C15 (as stated): a terminal-phase cycle whose rotate-to-goal sample is
\* infeasible still returns success.
C15_InfeasibleRotateReturnsTrue ==
  [][ (RotateInfeasible /\ ReturnStep) => last'.ret ]_vars

\* C15 (amended): a terminal-phase cycle whose rotate-to-goal sample is
\* infeasible writes the all-zero command and returns failure, leaving
\* rotating_to_goal_ true.
C15_InfeasibleRotateReturnsFalse ==
  [][ (RotateInfeasible /\ ReturnStep)
        => /\ ~last'.ret
           /\ last'.cmd_vel = ZeroTwist
           /\ rotating_to_goal_' ]_vars

\* a cycle returned from an infeasible rotate that it entered stopped and
\* not yet rotating
C15_Witness ==
  /\ pc = "idle"
  /\ last.op = CVC
  /\ last.branch = "rotate_infeasible"
  /\ ~last.rot0
  /\ rotating_to_goal_

\* C16: outside the terminal phase a cycle returns success iff the path
\* findBestPath selected has cost >= 0, and then the command is the sample
\* velocity of that path; with a negative cost it returns failure.
C16_DriveSucceedsIffCostNonNegative ==
  [][ ( /\ ReturnStep
        /\ transformed_plan # <<>>
        /\ ~InTerminalPhase )
        => \A sample \in DriveSamples :
             computeVelocityCommandsDecide(sample)
               => LET path == FindBestPath(costmap_, sample)
                  IN /\ last'.ret <=> path.cost_ >= 0
                     /\ last'.ret => last'.cmd_vel = sample
    ]_vars

\* a cycle drove with a turning sample, the robot away from its goal
C16_Witness ==
  /\ pc = "idle"
  /\ last.op = CVC
  /\ last.ret
  /\ last.branch = "drive"
  /\ last.cmd_vel = Twist(10, 0, 40)

\* C17 (as stated): the angular velocity rotateToGoal emits never exceeds
\* max_vel_th_ in magnitude, whatever the yaw rate of the odometry sample
\* and the angle to the goal.
C17_RotateWithinMaxVel ==
  [][ (ReturnStep /\ last'.branch \in {"rotate", "rotate_infeasible"})
        => Abs(last'.cmd_vel.z) <= max_vel_th_ ]_vars

\* C17 (amended): the angular velocity rotateToGoal emits never exceeds the
\* larger of max_vel_th_ and the current yaw rate less what the acceleration
\* limit takes off in 0.1 s.
C17_RotateWithinMaxVelOrDeceleration ==
  [][ (ReturnStep /\ last'.branch \in {"rotate", "rotate_infeasible"})
        => Abs(last'.cmd_vel.z)
             <= Max(max_vel_th_,
                    Abs(RobotVel(global_vel).yaw) - acc_lim_theta_ \div 10) ]_vars

\* a cycle rotated with a command beyond max_vel_th_
C17_Witness ==
  /\ pc = "idle"
  /\ last.op = CVC
  /\ last.branch = "rotate"
  /\ Abs(last.cmd_vel.z) > max_vel_th_

\* C18: in a terminal-phase cycle with the robot not oriented, the cycle
\* issues stopWithAccLimits and leaves rotating_to_goal_ false if it is false
\* and stopped() is false; otherwise it sets rotating_to_goal_ and issues
\* rotateToGoal.  Once set, rotating_to_goal_ is cleared only by a cycle that
\* finds the robot oriented, so no later terminal-phase cycle stops.
C18_StopThenRotate ==
  [][ /\ (TerminalNotOriented /\ ReturnStep)
        => IF ~rotating_to_goal_ /\ ~Stopped(base_odom_)
           THEN /\ last'.branch \in {"stop", "stop_infeasible"}
                /\ last'.cmd_vel
                     = stopWithAccLimits(costmap_, RobotVel(global_vel)).cmd
                /\ ~rotating_to_goal_'
           ELSE /\ last'.branch \in {"rotate", "rotate_infeasible"}
                /\ last'.cmd_vel
                     = rotateToGoal(costmap_, global_pose, RobotVel(global_vel),
                                    CycleGoal.th).cmd
                /\ rotating_to_goal_'
      /\ (initialized_ /\ rotating_to_goal_ /\ ~rotating_to_goal_')
        => /\ ReturnStep
           /\ InTerminalPhase
           /\ goalOrientationReached(global_pose, CycleGoal.th)
    ]_vars

\* a cycle rotated although the odometry record reported motion, because an
\* earlier cycle had set rotating_to_goal_
C18_Witness ==
  /\ pc = "idle"
  /\ last.op = CVC
  /\ last.branch = "rotate"
  /\ last.rot0
  /\ rotating_to_goal_
  /\ ~Stopped(base_odom_)

\* C19 (as stated): a cycle takes the DONE action only when the robot is
\* within the xy tolerance, oriented and stopped(); after it isGoalReached
\* returns true.
C19_DoneOnlyWhenStopped ==
  [][ (ReturnStep /\ last'.branch = "done")
        => /\ InTerminalPhase
           /\ goalOrientationReached(global_pose, CycleGoal.th)
           /\ Stopped(base_odom_)
           /\ GoalReachedResult(TRUE, "ok").ret'
    ]_vars

\* the deceleration of one axis over a tenth of a second
SlowedAxis(v, acc) == sign(v) * Max(0, Abs(v) - acc \div 10)

\* C20: a terminal-phase cycle that takes stopWithAccLimits computes, per
\* axis of robot_vel, sign(v) * max(0, |v| - acc * 0.1): no axis grows in
\* magnitude and no axis changes sign.  If checkTrajectory accepts the
\* command it is emitted and the cycle succeeds; otherwise the all-zero
\* command is emitted and the cycle fails.
C20_StopWithAccLimits ==
  [][ (TerminalNotOriented /\ ReturnStep
         /\ ~rotating_to_goal_ /\ ~Stopped(base_odom_))
        => LET v == RobotVel(global_vel)
               vx == SlowedAxis(v.x, acc_lim_x_)
               vy == SlowedAxis(v.y, acc_lim_y_)
               vth == SlowedAxis(v.yaw, acc_lim_theta_)
           IN /\ Abs(vx) <= Abs(v.x) /\ vx * v.x >= 0
              /\ Abs(vy) <= Abs(v.y) /\ vy * v.y >= 0
              /\ Abs(vth) <= Abs(v.yaw) /\ vth * v.yaw >= 0
              /\ IF CheckTrajectory(costmap_, vx, vy, vth)
                 THEN last'.ret /\ last'.cmd_vel = Twist(vx, vy, vth)
                 ELSE ~last'.ret /\ last'.cmd_vel = ZeroTwist
    ]_vars

C20_Witness ==
  /\ pc = "idle" /\ last.op = CVC /\ last.branch = "stop" /\ last.ret
  /\ last.cmd_vel.x > 0 /\ last.cmd_vel.y = 0 /\ last.cmd_vel.z < 0

\* a cycle that issues rotateToGoal: terminal phase, not oriented, and either
\* already rotating or stopped
RotateStep ==
  /\ TerminalNotOriented /\ ReturnStep
  /\ rotating_to_goal_ \/ Stopped(base_odom_)

\* C21: every command of rotateToGoal has zero linear x and y; when
\* checkTrajectory accepts it, its angular velocity has the sign of the
\* shortest angular distance from the robot yaw to the goal yaw and a
\* magnitude m with m * m <= 2 * acc_lim_theta * |ang_diff|; when
\* checkTrajectory rejects it, the angular velocity is zero.
C21_RotateCommandShape ==
  [][ RotateStep
        => LET ang_diff == ShortestAngularDistance(global_pose.th, CycleGoal.th)
               cmd == last'.cmd_vel
           IN /\ cmd.x = 0 /\ cmd.y = 0
              /\ IF last'.ret
                 THEN /\ cmd.z * ang_diff > 0
                      /\ cmd.z * cmd.z <= 2 * acc_lim_theta_ * Abs(ang_diff)
                 ELSE cmd.z = 0
    ]_vars

\* a rotate command that the cap by max_speed_to_stop has cut down
C21_Witness ==
  /\ pc = "idle" /\ last.op = CVC /\ last.branch = "rotate" /\ last.ret
  /\ robot.th = 8
  /\ last.cmd_vel.z = -ISqrt(2 * acc_lim_theta_ * 8)

\* the control thread enters a cycle that gets as far as prunePlan
PruneCallStep == pc = "idle" /\ pc' = "linear_x" /\ prune_plan_

\* C22: a retained plan that is not empty stays non-empty and keeps its last
\* element through every step other than setPlan, so after setPlan calls
\* with non-empty plans the retained plan always ends with the goal of the
\* plan set last; at every call of prunePlan the retained plan is at least as
\* long as the transformed plan.
C22_GoalSurvivesPruning ==
  [][ /\ (global_plan_ # <<>> /\ ~SetPlanStep)
          => /\ global_plan_' # <<>>
             /\ global_plan_'[Len(global_plan_')] = global_plan_[Len(global_plan_)]
      /\ PruneCallStep
          => Len(global_plan_)
               >= Len(transformGlobalPlan(global_plan_, RobotPoseInPlanFrame(robot)))
    ]_vars

\* a cycle in which prunePlan erased points of the retained plan
C22_Witness ==
  /\ prune_plan_ /\ pc = "linear_x"
  /\ global_plan_ # <<>> /\ Len(global_plan_) < Len(plan0)

\* the position in plan of the last point transformGlobalPlan pushes
\* (the value of i when its second loop ends)
LastPushedIndex(plan, robot_pose) ==
  SkipLoop(plan, robot_pose, 0, DblMax).i
    + Len(transformGlobalPlan(plan, robot_pose))

\* C23: with xy_goal_tolerance below the window distance, a cycle is in the
\* terminal phase only when the robot is within xy_goal_tolerance of the
\* last point of the retained plan; the last point of the transformed plan
\* is the last point of the plan the cycle started with or a point too far
\* away to pass the position test, never a waypoint in between.
C23_TerminalOnlyAtPlanGoal ==
  (pc = "decide" /\ transformed_plan # <<>>
     /\ xy_goal_tolerance_ * xy_goal_tolerance_ < sq_dist_threshold)
    => /\ InTerminalPhase
          => goalPositionReached(global_pose, PlanGoal.x, PlanGoal.y)
       /\ \/ LastPushedIndex(plan0, RobotPoseInPlanFrame(global_pose)) = Len(plan0)
          \/ ~goalPositionReached(global_pose, CycleGoal.x, CycleGoal.y)

\* a terminal-phase cycle on a plan with a waypoint in front of the goal
C23_Witness ==
  /\ InTerminalPhase /\ Len(plan0) > 1
  /\ LastPushedIndex(plan0, RobotPoseInPlanFrame(global_pose)) = Len(plan0)

\* C24 (as stated): the angular velocity commanded by rotateToGoal differs
\* from the signed current angular velocity by at most acc_lim_theta * 0.1.
C24_RotateWithinSignedAccLimit ==
  [][ RotateStep
        => Abs(last'.cmd_vel.z - RobotVel(global_vel).yaw)
             <= acc_lim_theta_ \div 10
    ]_vars

\* C24 (amended): the magnitude of the angular velocity commanded by
\* rotateToGoal is at most the magnitude of the current angular velocity
\* plus acc_lim_theta * 0.1, and at least that magnitude minus
\* acc_lim_theta * 0.1 when checkTrajectory accepts the command and the
\* command is below max_speed_to_stop.
C24_RotateWithinMagnitudeAccLimit ==
  [][ RotateStep
        => LET cur == Abs(RobotVel(global_vel).yaw)
               ang_diff == ShortestAngularDistance(global_pose.th, CycleGoal.th)
               max_speed_to_stop == ISqrt(2 * acc_lim_theta_ * Abs(ang_diff))
               m == Abs(last'.cmd_vel.z)
           IN /\ m <= cur + acc_lim_theta_ \div 10
              /\ (last'.ret /\ m < max_speed_to_stop)
                   => m >= cur - acc_lim_theta_ \div 10
    ]_vars

\* a rotate command held down by the upper end of the acceleration window
\* (current angular velocity 0.5 rad/s)
C24_Witness ==
  /\ pc = "idle" /\ last.op = CVC /\ last.branch = "rotate" /\ last.ret
  /\ Abs(last.cmd_vel.z) = 50 + acc_lim_theta_ \div 10

\* C25: in the closed loop of the stop phase (in position, not oriented,
\* moving, every stop command accepted, every odometry message equal to the
\* command emitted last) a cycle eventually finds stopped() true, sets
\* rotating_to_goal_ and issues rotateToGoal.
C25_StopPhaseEnds ==
  <>(/\ pc = "idle" /\ last.op = CVC /\ last.branch = "rotate"
     /\ ~last.rot0 /\ rotating_to_goal_ /\ Stopped(base_odom_))

\* in the stop phase: a stop command has been emitted and taken up by the
\* odometry, and the robot is still moving
C25_Witness ==
  /\ pc = "idle" /\ last.op = CVC /\ last.branch = "stop"
  /\ ~rotating_to_goal_ /\ base_odom_ = last.cmd_vel /\ ~Stopped(base_odom_)

============================================================================
